---------------------------- MODULE Spec2Model ----------------------------
(***************************************************************************)
(* Block-streaming chunking / coalescing resolvers (block-streaming) and   *)
(* the script / branch command handlers (commands-scripts.ts).             *)
(*                                                                         *)
(* Spec     : the three pure resolvers applied to bounded inputs.          *)
(* CmdSpec  : handleScriptCommand / handleBranchCommand interleaved with   *)
(*            the clock and the detached scripts they spawn.               *)
(***************************************************************************)
EXTENDS Integers, Sequences, FiniteSets, TLC

VARIABLES
    \* ---- resolver call (Spec) ----
    call,        \* which resolver is being invoked
    cfg,         \* configuration snapshot
    provider,    \* raw provider string argument
    accountId,   \* raw account id argument
    chunking,    \* optional chunking argument of the coalescing resolver
    registry,    \* provider plugin registry (streaming defaults per provider id)
    textLimit,   \* value returned by resolveTextChunkLimit for this call
    pc,          \* "ready" before the call, "done" after it returned
    ret,         \* the returned record
    \* ---- command handlers (CmdSpec) ----
    now,         \* Date.now(), in ms
    restartLock, \* /tmp/clawd-command.lock
    branchLock,  \* /tmp/clawdbot-branch-switch.lock
    pending,     \* handleBranchCommand invocations suspended at their await
    handled,     \* number of handler invocations started so far
    last,        \* the invocation that returned last, with its result and effects
    scripts,     \* detached scripts currently running
    ghost        \* history of spawns, for the mutual-exclusion properties

resolveVars == <<call, cfg, provider, accountId, chunking, registry, textLimit, pc, ret>>
cmdVars == <<now, restartLock, branchLock, pending, handled, last, scripts, ghost>>
vars == <<call, cfg, provider, accountId, chunking, registry, textLimit, pc, ret,
          now, restartLock, branchLock, pending, handled, last, scripts, ghost>>

---------------------------------------------------------------------------
(* JavaScript numbers.  A value is undefined, NaN, or a finite number kept *)
(* in halves (h = 2 * value) so that fractional sizes can be configured.   *)

Undefined == [tag |-> "undefined", h |-> 0]
NaN == [tag |-> "nan", h |-> 0]
Num(n) == [tag |-> "num", h |-> 2 * n]
Frac(n) == [tag |-> "num", h |-> 2 * n + 1]

IsNum(x) == x.tag = "num"
IsInteger(x) == x.tag = "num" /\ x.h % 2 = 0
Val(x) == x.h \div 2

\* a ?? b
Nullish(a, b) == IF a.tag = "undefined" THEN b ELSE a

\* Math.floor: NaN (and undefined, coerced to NaN) stay NaN
MathFloor(x) == IF x.tag = "num" THEN [tag |-> "num", h |-> 2 * (x.h \div 2)] ELSE NaN

\* Math.max / Math.min: NaN if either argument is NaN
MathMax(a, b) ==
    IF a.tag # "num" \/ b.tag # "num" THEN NaN
    ELSE IF a.h >= b.h THEN a ELSE b

MathMin(a, b) ==
    IF a.tag # "num" \/ b.tag # "num" THEN NaN
    ELSE IF a.h <= b.h THEN a ELSE b

DEFAULT_BLOCK_STREAM_MIN == 800
DEFAULT_BLOCK_STREAM_MAX == 1200
DEFAULT_BLOCK_STREAM_COALESCE_IDLE_MS == 1000
DEFAULT_TELEGRAM_DRAFT_STREAM_MIN == 200
DEFAULT_TELEGRAM_DRAFT_STREAM_MAX == 800

---------------------------------------------------------------------------
(* Provider strings are sequences of characters, so that trim() and        *)
(* toLowerCase() are computed.                                             *)

Telegram == <<"t", "e", "l", "e", "g", "r", "a", "m">>
Discord == <<"d", "i", "s", "c", "o", "r", "d">>
Webchat == <<"w", "e", "b", "c", "h", "a", "t">>
NoKey == <<>>

PROVIDER_IDS == {Telegram, Discord}
INTERNAL_MESSAGE_PROVIDER == Webchat
BLOCK_CHUNK_PROVIDERS == PROVIDER_IDS \cup {INTERNAL_MESSAGE_PROVIDER}

ToLowerChar(c) ==
    CASE c = "T" -> "t"
      [] c = "E" -> "e"
      [] c = "L" -> "l"
      [] c = "G" -> "g"
      [] c = "R" -> "r"
      [] c = "A" -> "a"
      [] c = "M" -> "m"
      [] c = "D" -> "d"
      [] c = "I" -> "i"
      [] c = "S" -> "s"
      [] c = "C" -> "c"
      [] c = "O" -> "o"
      [] OTHER -> c

ToLowerCase(s) == [i \in 1..Len(s) |-> ToLowerChar(s[i])]

RECURSIVE TrimStart(_)
TrimStart(s) == IF s # <<>> /\ Head(s) = " " THEN TrimStart(Tail(s)) ELSE s

RECURSIVE TrimEnd(_)
TrimEnd(s) ==
    IF s # <<>> /\ s[Len(s)] = " " THEN TrimEnd(SubSeq(s, 1, Len(s) - 1)) ELSE s

Trim(s) == TrimEnd(TrimStart(s))

\* provider argument: [given |-> FALSE] is an omitted argument
normalizeChunkProvider(p) ==
    IF ~p.given \/ p.chars = <<>> THEN NoKey
    ELSE LET cleaned == ToLowerCase(Trim(p.chars))
         IN IF cleaned \in BLOCK_CHUNK_PROVIDERS THEN cleaned ELSE NoKey

\* plugin id of a provider key: the internal provider has no plugin
normalizeProviderId(key) == IF key \in PROVIDER_IDS THEN key ELSE NoKey

DEFAULT_ACCOUNT_ID == "default"
normalizeAccountId(a) == IF a = "" THEN DEFAULT_ACCOUNT_ID ELSE a


---------------------------------------------------------------------------
(* Configuration snapshot.  An optional object carries a `present` flag;   *)
(* `x?.f` on an absent object is undefined.                                *)

NoPref == "<unset>"

Block(min, max, idle, pref) ==
    [present |-> TRUE, minChars |-> min, maxChars |-> max, idleMs |-> idle,
     breakPreference |-> pref]

NoBlock ==
    [present |-> FALSE, minChars |-> Undefined, maxChars |-> Undefined,
     idleMs |-> Undefined, breakPreference |-> NoPref]

\* blk?.minChars, blk?.maxChars, blk?.idleMs, blk?.breakPreference
OptMin(blk) == IF blk.present THEN blk.minChars ELSE Undefined
OptMax(blk) == IF blk.present THEN blk.maxChars ELSE Undefined
OptIdle(blk) == IF blk.present THEN blk.idleMs ELSE Undefined
OptPref(blk) == IF blk.present THEN blk.breakPreference ELSE NoPref

AccountKeys == {"default", "work"}

NoAccount == [present |-> FALSE, blockStreamingCoalesce |-> NoBlock, draftChunk |-> NoBlock]
Account(coalesce, draft) ==
    [present |-> TRUE, blockStreamingCoalesce |-> coalesce, draftChunk |-> draft]

NoSection ==
    [present |-> FALSE, blockStreamingCoalesce |-> NoBlock, draftChunk |-> NoBlock,
     accounts |-> [a \in AccountKeys |-> NoAccount]]
Section(coalesce, draft, work) ==
    [present |-> TRUE, blockStreamingCoalesce |-> coalesce, draftChunk |-> draft,
     accounts |-> [a \in AccountKeys |-> IF a = "work" THEN work ELSE NoAccount]]

\* cfg: agents.defaults.blockStreamingChunk, agents.defaults.blockStreamingCoalesce
\* and one section per provider key
Config(chunk, coalesce, tg) ==
    [present |-> TRUE, blockStreamingChunk |-> chunk, blockStreamingCoalesce |-> coalesce,
     sections |-> [k \in BLOCK_CHUNK_PROVIDERS |-> IF k = Telegram THEN tg ELSE NoSection]]
NoConfig ==
    [present |-> FALSE, blockStreamingChunk |-> NoBlock, blockStreamingCoalesce |-> NoBlock,
     sections |-> [k \in BLOCK_CHUNK_PROVIDERS |-> NoSection]]

\* plugin registry: getProviderPlugin(id)?.streaming?.blockStreamingCoalesceDefaults
NoDefaults == [present |-> FALSE, minChars |-> Undefined, idleMs |-> Undefined]
Defaults(min, idle) == [present |-> TRUE, minChars |-> min, idleMs |-> idle]
getProviderPlugin(reg, id) == IF id \in DOMAIN reg THEN reg[id] ELSE NoDefaults

\* the optional chunking argument / a resolver's return value
NoResult ==
    [defined |-> FALSE, minChars |-> Undefined, maxChars |-> Undefined,
     breakPreference |-> NoPref, idleMs |-> Undefined, joiner |-> ""]
ChunkingResult(min, max, pref) ==
    [defined |-> TRUE, minChars |-> min, maxChars |-> max, breakPreference |-> pref,
     idleMs |-> Undefined, joiner |-> ""]
CoalescingResult(min, max, idle, j) ==
    [defined |-> TRUE, minChars |-> min, maxChars |-> max, breakPreference |-> NoPref,
     idleMs |-> idle, joiner |-> j]

---------------------------------------------------------------------------
(* The resolvers.  `limit` is what resolveTextChunkLimit returned.         *)

\* variant: the account block merged field by field over the provider block
MergedProviderBlockStreamingCoalesce(c, providerKey, acct) ==
    IF ~c.present \/ providerKey = NoKey THEN NoBlock
    ELSE LET providerCfg == c.sections[providerKey]
             accountCfg == providerCfg.accounts[normalizeAccountId(acct)]
             own == accountCfg.blockStreamingCoalesce
             shared == providerCfg.blockStreamingCoalesce
         IN IF ~providerCfg.present THEN NoBlock
            ELSE IF accountCfg.present /\ own.present
                 THEN Block(Nullish(own.minChars, OptMin(shared)),
                            Nullish(own.maxChars, OptMax(shared)),
                            Nullish(own.idleMs, OptIdle(shared)), NoPref)
                 ELSE shared

resolveProviderBlockStreamingCoalesce(c, providerKey, acct) ==
    IF ~c.present \/ providerKey = NoKey THEN NoBlock
    ELSE LET providerCfg == c.sections[providerKey]
         IN IF ~providerCfg.present THEN NoBlock
            ELSE LET normalizedAccountId == normalizeAccountId(acct)
                     accountCfg == IF normalizedAccountId \in DOMAIN providerCfg.accounts
                                   THEN providerCfg.accounts[normalizedAccountId]
                                   ELSE NoAccount
                 IN IF accountCfg.present /\ accountCfg.blockStreamingCoalesce.present
                    THEN accountCfg.blockStreamingCoalesce
                    ELSE providerCfg.blockStreamingCoalesce

ResolveBreakPreference(blk) ==
    IF OptPref(blk) = "newline" \/ OptPref(blk) = "sentence"
    THEN blk.breakPreference
    ELSE "paragraph"

\* variant: the requested maximum is not capped at the hard limit
ChunkMaxCharsUncapped(chunkCfg, fallback, limit) ==
    MathMax(Num(1), MathFloor(Nullish(OptMax(chunkCfg), Num(fallback))))

\* maxRequested and maxChars of the two chunking resolvers
ChunkMaxChars(chunkCfg, fallback, limit) ==
    LET maxRequested == MathMax(Num(1), MathFloor(Nullish(OptMax(chunkCfg), Num(fallback))))
    IN MathMax(Num(1), MathMin(maxRequested, limit))

\* minRequested and minChars of the two chunking resolvers
ChunkMinChars(chunkCfg, fallback, maxChars) ==
    LET minRequested == MathMax(Num(1), MathFloor(Nullish(OptMin(chunkCfg), Num(fallback))))
    IN MathMin(minRequested, maxChars)

resolveBlockStreamingChunking(c, p, acct, limit) ==
    LET chunkCfg == IF c.present THEN c.blockStreamingChunk ELSE NoBlock
        maxChars == ChunkMaxChars(chunkCfg, DEFAULT_BLOCK_STREAM_MAX, limit)
        minChars == ChunkMinChars(chunkCfg, DEFAULT_BLOCK_STREAM_MIN, maxChars)
    IN ChunkingResult(minChars, maxChars, ResolveBreakPreference(chunkCfg))

resolveTelegramDraftStreamingChunking(c, acct, limit) ==
    LET normalizedAccountId == normalizeAccountId(acct)
        tg == IF c.present THEN c.sections[Telegram] ELSE NoSection
        accountCfg == IF tg.present /\ normalizedAccountId \in DOMAIN tg.accounts
                      THEN tg.accounts[normalizedAccountId]
                      ELSE NoAccount
        draftCfg == IF accountCfg.present /\ accountCfg.draftChunk.present
                    THEN accountCfg.draftChunk
                    ELSE IF tg.present THEN tg.draftChunk ELSE NoBlock
        maxChars == ChunkMaxChars(draftCfg, DEFAULT_TELEGRAM_DRAFT_STREAM_MAX, limit)
        minChars == ChunkMinChars(draftCfg, DEFAULT_TELEGRAM_DRAFT_STREAM_MIN, maxChars)
    IN ChunkingResult(minChars, maxChars, ResolveBreakPreference(draftCfg))

\* coalesceCfg = providerCfg ?? cfg?.agents?.defaults?.blockStreamingCoalesce
EffectiveCoalesceCfg(c, providerKey, acct) ==
    LET providerCfg == resolveProviderBlockStreamingCoalesce(c, providerKey, acct)
    IN IF providerCfg.present THEN providerCfg
       ELSE IF c.present THEN c.blockStreamingCoalesce ELSE NoBlock

CoalesceMaxChars(coalesceCfg, limit) ==
    LET maxRequested == MathMax(Num(1), MathFloor(Nullish(OptMax(coalesceCfg), limit)))
    IN MathMax(Num(1), MathMin(maxRequested, limit))

\* variant: the requested minimum is not reduced to maxChars
CoalesceMinCharsUnclamped(coalesceCfg, providerDefaults, chunk, maxChars) ==
    LET chunkMin == IF chunk.defined THEN chunk.minChars ELSE Undefined
    IN MathMax(Num(1),
               MathFloor(Nullish(OptMin(coalesceCfg),
                         Nullish(providerDefaults.minChars,
                         Nullish(chunkMin, Num(DEFAULT_BLOCK_STREAM_MIN))))))

CoalesceMinChars(coalesceCfg, providerDefaults, chunk, maxChars) ==
    LET chunkMin == IF chunk.defined THEN chunk.minChars ELSE Undefined
        minRequested ==
            MathMax(Num(1),
                    MathFloor(Nullish(OptMin(coalesceCfg),
                              Nullish(providerDefaults.minChars,
                              Nullish(chunkMin, Num(DEFAULT_BLOCK_STREAM_MIN))))))
    IN MathMin(minRequested, maxChars)

CoalesceIdleMs(coalesceCfg, providerDefaults) ==
    MathMax(Num(0),
            MathFloor(Nullish(OptIdle(coalesceCfg),
                      Nullish(providerDefaults.idleMs,
                              Num(DEFAULT_BLOCK_STREAM_COALESCE_IDLE_MS)))))

\* variant: only "sentence" is told apart
JoinerSentenceOnly(preference) == IF preference = "sentence" THEN " " ELSE "\n\n"

Joiner(preference) ==
    IF preference = "sentence" THEN " "
    ELSE IF preference = "newline" THEN "\n" ELSE "\n\n"

\* variant: no result without a provider key
CoalescingAbsentWithoutKey(c, p, acct, chunk, reg, limit) ==
    LET providerKey == normalizeChunkProvider(p)
        providerId == normalizeProviderId(providerKey)
        providerDefaults == getProviderPlugin(reg, providerId)
        coalesceCfg == EffectiveCoalesceCfg(c, providerKey, acct)
        maxChars == CoalesceMaxChars(coalesceCfg, limit)
        minChars == CoalesceMinChars(coalesceCfg, providerDefaults, chunk, maxChars)
        idleMs == CoalesceIdleMs(coalesceCfg, providerDefaults)
        preference == IF chunk.defined THEN chunk.breakPreference ELSE "paragraph"
    IN IF providerKey = NoKey THEN NoResult
       ELSE CoalescingResult(minChars, maxChars, idleMs, Joiner(preference))

resolveBlockStreamingCoalescing(c, p, acct, chunk, reg, limit) ==
    LET providerKey == normalizeChunkProvider(p)
        providerId == IF providerKey # NoKey THEN normalizeProviderId(providerKey) ELSE NoKey
        providerDefaults == IF providerId # NoKey THEN getProviderPlugin(reg, providerId)
                            ELSE NoDefaults
        coalesceCfg == EffectiveCoalesceCfg(c, providerKey, acct)
        maxChars == CoalesceMaxChars(coalesceCfg, limit)
        minChars == CoalesceMinChars(coalesceCfg, providerDefaults, chunk, maxChars)
        idleMs == CoalesceIdleMs(coalesceCfg, providerDefaults)
        preference == IF chunk.defined THEN chunk.breakPreference ELSE "paragraph"
    IN CoalescingResult(minChars, maxChars, idleMs, Joiner(preference))

---------------------------------------------------------------------------
(* Bounded inputs of the resolvers.                                        *)

Str(chars) == [given |-> TRUE, chars |-> chars]
NoProvider == [given |-> FALSE, chars |-> <<>>]

ProviderArgs ==
    { NoProvider,
      Str(<<>>),
      Str(<<" ", " ">>),
      Str(<<" ", "T", "e", "l", "e", "g", "r", "a", "m", " ">>),
      Str(Telegram),
      Str(<<"D", "I", "S", "C", "O", "R", "D">>),
      Str(Webchat),
      Str(<<"s", "m", "s">>) }

TelegramArgs == {p \in ProviderArgs : normalizeChunkProvider(p) = Telegram}

\* "" stands for an omitted / null account id
AccountArgs == {"", "work"}

TextLimits == {Num(1), Num(500), Num(1200), Num(4000)}

SizeValues == {Undefined, NaN, Num(-5), Num(0), Frac(2), Num(300), Num(1000), Num(5000)}
IdleValues == {Undefined, NaN, Num(-1), Frac(0), Num(50)}
PrefValues == {NoPref, "paragraph", "newline", "sentence", "word"}

ChunkBlocks ==
    {NoBlock} \cup
    {Block(mn, mx, Undefined, pf) : mn \in SizeValues, mx \in SizeValues, pf \in PrefValues}

DraftProviderBlocks == {NoBlock, Block(Num(100), Num(600), Undefined, "newline")}

AccountCoalesce ==
    { NoAccount,
      Account(NoBlock, NoBlock),
      Account(Block(Undefined, Undefined, Undefined, NoPref), NoBlock),
      Account(Block(Undefined, Undefined, Num(50), NoPref), NoBlock),
      Account(Block(Num(5000), Num(450), Num(0), NoPref), NoBlock),
      Account(Block(Frac(7), Undefined, Undefined, NoPref), NoBlock) }

ProviderCoalesce ==
    { NoBlock,
      Block(Num(300), Undefined, Undefined, NoPref),
      Block(Undefined, Num(700), Num(2000), NoPref) }

AgentCoalesceFew ==
    { NoBlock,
      Block(Num(150), Num(350), Num(10), NoPref),
      Block(Undefined, Num(900), Undefined, NoPref) }

AgentCoalesceAll ==
    {NoBlock} \cup
    {Block(mn, mx, id, NoPref) :
        mn \in SizeValues \ {Num(1000)}, mx \in SizeValues \ {Num(1000)}, id \in IdleValues}

ChunkingArgs ==
    { NoResult,
      ChunkingResult(Num(100), Num(400), "sentence"),
      ChunkingResult(Num(100), Num(400), "newline"),
      ChunkingResult(Num(900), Num(1200), "paragraph") }

PluginDefaults ==
    { NoDefaults,
      Defaults(Num(1500), Undefined),
      Defaults(Undefined, Num(250)),
      Defaults(Num(60), Num(250)) }

Registry(tg) == [id \in PROVIDER_IDS |-> IF id = Telegram THEN tg ELSE NoDefaults]

\* inputs of resolveBlockStreamingChunking: the agent-level chunk block varies
ChunkingInputs ==
    /\ call = "chunking"
    /\ cfg \in {NoConfig} \cup {Config(b, NoBlock, NoSection) : b \in ChunkBlocks}
    /\ provider \in {NoProvider, Str(Telegram), Str(<<"s", "m", "s">>)}
    /\ accountId \in AccountArgs
    /\ chunking = NoResult
    /\ registry = Registry(NoDefaults)
    /\ textLimit \in TextLimits

\* inputs of resolveTelegramDraftStreamingChunking: the account-level and the
\* provider-level draftChunk blocks vary
DraftInputs ==
    /\ call = "draft"
    /\ cfg \in {NoConfig, Config(NoBlock, NoBlock, NoSection)} \cup
               {Config(NoBlock, NoBlock, Section(NoBlock, d, Account(NoBlock, b))) :
                    d \in DraftProviderBlocks, b \in ChunkBlocks}
    /\ provider = NoProvider
    /\ accountId \in AccountArgs
    /\ chunking = NoResult
    /\ registry = Registry(NoDefaults)
    /\ textLimit \in TextLimits

\* inputs of resolveBlockStreamingCoalescing, the three override layers varying
LayeredInputs ==
    /\ call = "coalescing"
    /\ cfg \in {Config(NoBlock, g, Section(pb, NoBlock, ab)) :
                    g \in AgentCoalesceFew, pb \in ProviderCoalesce, ab \in AccountCoalesce}
    /\ provider \in TelegramArgs
    /\ accountId \in AccountArgs
    /\ chunking \in ChunkingArgs
    /\ registry \in {Registry(d) : d \in PluginDefaults}
    /\ textLimit \in TextLimits \ {Num(1200)}

\* inputs of resolveBlockStreamingCoalescing, the provider argument and the
\* agent-level sizes varying
AgentInputs ==
    /\ call = "coalescing"
    /\ cfg \in {NoConfig} \cup
               {Config(NoBlock, g, tg) :
                    g \in AgentCoalesceAll,
                    tg \in {NoSection,
                            Section(Block(Num(300), Undefined, Undefined, NoPref), NoBlock,
                                    NoAccount)}}
    /\ provider \in ProviderArgs
    /\ accountId = ""
    /\ chunking \in {NoResult, ChunkingResult(Num(100), Num(400), "sentence")}
    /\ registry \in {Registry(NoDefaults), Registry(Defaults(Num(60), Num(250)))}
    /\ textLimit \in TextLimits \ {Num(1200)}

---------------------------------------------------------------------------
(* Command handlers: lock files, the command table and the handlers'       *)
(* outcomes.  A command body is the sequence of its words.                 *)

LOCK_MAX_AGE_MS == 300000

\* clock granularity, clock horizon and number of handler invocations
TickMs == 100000
MaxTicks == 3
MaxCalls == 2

NoLock == [exists |-> FALSE, mtimeMs |-> 0]
Lock(t) == [exists |-> TRUE, mtimeMs |-> t]

\* Date.now() - stat.mtimeMs of an existing lock file; -1 when statSync throws
LockAgeMs(lock, t) == IF lock.exists THEN t - lock.mtimeMs ELSE -1

\* variant: the age test inverted
LockIsFreshInverted(lock, t) == lock.exists /\ t - lock.mtimeMs > LOCK_MAX_AGE_MS

\* statSync succeeded and ageMs < 300000
LockIsFresh(lock, t) == lock.exists /\ t - lock.mtimeMs < LOCK_MAX_AGE_MS

RestartCommands ==
    {<<"/update">>, <<"/restart">>, <<"/revert">>,
     <<"/clawd-update">>, <<"/clawd-restart">>, <<"/clawd-revert">>}
PlainCommands ==
    {<<"/push">>, <<"/git-status">>, <<"/doctor">>, <<"/logs">>, <<"/crons">>,
     <<"/copilot-models">>, <<"/clawd-push">>, <<"/clawd-git-status">>,
     <<"/clawd-doctor">>, <<"/clawd-logs">>}
CLAWD_SCRIPT_COMMANDS ==
    [c \in RestartCommands \cup PlainCommands |-> [restart |-> c \in RestartCommands]]

\* /^\/branch(?:\s+(.+))?$/ and === "/main"
branchCommandMatch(command) == Len(command) >= 1 /\ command[1] = "/branch"
mainCommandMatch(command) == command = <<"/main">>

\* what a handler invocation did: its result and its effects on the lock file and
\* on processes
Outcome(result, lock, effects) == [result |-> result, lock |-> lock, effects |-> effects]

\* restart branch of handleScriptCommand
RestartOutcome(lock, t, spawnOk) ==
    IF LockIsFresh(lock, t) THEN Outcome("restartInProgress", lock, {})
    ELSE IF spawnOk THEN Outcome("initiated", Lock(t), {"lockWrite", "spawn"})
         ELSE Outcome("spawnFailed", NoLock, {"lockWrite", "lockDelete"})

\* execAsync branch of handleScriptCommand
ExecOutcome(lock, execOk) ==
    IF execOk THEN Outcome("output", lock, {"exec"})
    ELSE Outcome("commandFailed", lock, {"exec"})

\* variant: the sender is not checked
ScriptOutcomeAnySender(command, isAuthorizedSender, allowTextCommands, lock, t, ok) ==
    IF ~allowTextCommands \/ command \notin DOMAIN CLAWD_SCRIPT_COMMANDS
    THEN Outcome("null", lock, {})
    ELSE IF CLAWD_SCRIPT_COMMANDS[command].restart THEN RestartOutcome(lock, t, ok)
         ELSE ExecOutcome(lock, ok)

ScriptOutcome(command, isAuthorizedSender, allowTextCommands, lock, t, ok) ==
    IF ~allowTextCommands \/ command \notin DOMAIN CLAWD_SCRIPT_COMMANDS
    THEN Outcome("null", lock, {})
    ELSE IF ~isAuthorizedSender THEN Outcome("ignored", lock, {})
    ELSE IF CLAWD_SCRIPT_COMMANDS[command].restart THEN RestartOutcome(lock, t, ok)
         ELSE ExecOutcome(lock, ok)

\* handleBranchCommand up to its first await: "await" when it goes on
BranchEntry(command, isAuthorizedSender, allowTextCommands, lock, t) ==
    IF ~allowTextCommands \/ (~branchCommandMatch(command) /\ ~mainCommandMatch(command))
    THEN "null"
    ELSE IF ~isAuthorizedSender THEN "ignored"
    ELSE IF LockIsFresh(lock, t) THEN "branchInProgress"
    ELSE "await"

\* handleBranchCommand after the await, given the current git branch
BranchExit(command, currentBranch) ==
    IF mainCommandMatch(command)
    THEN IF currentBranch = "main" THEN "alreadyOnMain" ELSE "switching"
    ELSE IF Len(command) < 2 THEN "showBranch" ELSE "switching"

Commands ==
    {<<"/update">>, <<"/clawd-revert">>, <<"/push">>, <<"/update", "now">>,
     <<"/branch">>, <<"/branch", "dev">>, <<"/main">>, <<"/help">>}

Branches == {"main", "dev"}

NoInvocation ==
    [seq |-> 0, handler |-> "none", command |-> <<>>, isAuthorizedSender |-> FALSE,
     allowTextCommands |-> FALSE, lockAgeMs |-> -1, sinceSpawnMs |-> -1,
     result |-> "none", effects |-> {}]
\* lockAgeMs: age of the lock file the invocation found (-1: none); sinceSpawnMs:
\* time since the last spawn by the same handler when it was called (-1: none)
Invocation(seq, handler, command, auth, allow, age, since, result, effects) ==
    [seq |-> seq, handler |-> handler, command |-> command, isAuthorizedSender |-> auth,
     allowTextCommands |-> allow, lockAgeMs |-> age, sinceSpawnMs |-> since,
     result |-> result, effects |-> effects]

NoGhost ==
    [restartSpawnAt |-> -1, restartOverlap |-> FALSE, branchSpawnAt |-> -1]

CmdIdle ==
    /\ now = 0
    /\ restartLock = NoLock
    /\ branchLock = NoLock
    /\ pending = {}
    /\ handled = 0
    /\ last = NoInvocation
    /\ scripts = [restart |-> 0, branch |-> 0]
    /\ ghost = NoGhost

\* a spawn at time t follows an earlier one by less than 300000 ms
TooSoon(earlier, t) == earlier >= 0 /\ t - earlier < LOCK_MAX_AGE_MS
Since(earlier, t) == IF earlier >= 0 THEN t - earlier ELSE -1

HandleScriptCommand ==
    /\ handled < MaxCalls
    /\ \E command \in Commands, auth \in BOOLEAN, allow \in BOOLEAN, ok \in BOOLEAN :
         LET o == ScriptOutcome(command, auth, allow, restartLock, now, ok)
             spawned == "spawn" \in o.effects
             unlinked == "lockDelete" \in o.effects
         IN /\ handled' = handled + 1
            /\ restartLock' = o.lock
            /\ scripts' = IF spawned THEN [scripts EXCEPT !.restart = @ + 1] ELSE scripts
            /\ last' = Invocation(handled + 1, "script", command, auth, allow,
                                  LockAgeMs(restartLock, now),
                                  Since(ghost.restartSpawnAt, now), o.result, o.effects)
            /\ ghost' = [ghost EXCEPT
                   !.restartOverlap = @ \/ (spawned /\ TooSoon(ghost.restartSpawnAt, now)),
                   !.restartSpawnAt = IF spawned THEN now
                                      ELSE IF unlinked THEN -1 ELSE @]
    /\ UNCHANGED <<now, branchLock, pending>>
    /\ UNCHANGED resolveVars

\* handleBranchCommand from its call to its early return or its first await
BranchCheck ==
    /\ handled < MaxCalls
    /\ \E command \in Commands, auth \in BOOLEAN, allow \in BOOLEAN :
         LET r == BranchEntry(command, auth, allow, branchLock, now)
             inv == Invocation(handled + 1, "branch", command, auth, allow,
                               LockAgeMs(branchLock, now),
                               Since(ghost.branchSpawnAt, now), r, {})
         IN /\ handled' = handled + 1
            /\ pending' = IF r = "await" THEN pending \cup {inv} ELSE pending
            /\ last' = IF r = "await" THEN last ELSE inv
    /\ UNCHANGED <<now, restartLock, branchLock, scripts, ghost>>
    /\ UNCHANGED resolveVars

\* handleBranchCommand from its await to its return
BranchResume ==
    /\ \E inv \in pending, currentBranch \in Branches :
         LET r == BranchExit(inv.command, currentBranch)
             spawned == r = "switching"
         IN /\ pending' = pending \ {inv}
            /\ scripts' = IF spawned THEN [scripts EXCEPT !.branch = @ + 1] ELSE scripts
            /\ last' = [inv EXCEPT !.result = r,
                                   !.effects = IF spawned THEN {"spawn"} ELSE {}]
            /\ ghost' = [ghost EXCEPT !.branchSpawnAt = IF spawned THEN now ELSE @]
    /\ UNCHANGED <<now, restartLock, branchLock, handled>>
    /\ UNCHANGED resolveVars

Tick ==
    /\ now < MaxTicks * TickMs
    /\ now' = now + TickMs
    /\ UNCHANGED <<restartLock, branchLock, pending, handled, last, scripts, ghost>>
    /\ UNCHANGED resolveVars

\* a detached restart-style script ends, removing the lock file or leaving it
RestartScriptExits ==
    /\ scripts.restart > 0
    /\ \E rm \in BOOLEAN :
         /\ restartLock' = IF rm THEN NoLock ELSE restartLock
         /\ ghost' = IF rm THEN [ghost EXCEPT !.restartSpawnAt = -1] ELSE ghost
    /\ scripts' = [scripts EXCEPT !.restart = @ - 1]
    /\ UNCHANGED <<now, branchLock, pending, handled, last>>
    /\ UNCHANGED resolveVars

\* the detached branch-switch script takes the branch lock
BranchScriptLocks ==
    /\ scripts.branch > 0
    /\ branchLock' = Lock(now)
    /\ UNCHANGED <<now, restartLock, pending, handled, last, scripts, ghost>>
    /\ UNCHANGED resolveVars

\* the detached branch-switch script ends and releases the branch lock
BranchScriptExits ==
    /\ scripts.branch > 0
    /\ scripts' = [scripts EXCEPT !.branch = @ - 1]
    /\ branchLock' = NoLock
    /\ UNCHANGED <<now, restartLock, pending, handled, last, ghost>>
    /\ UNCHANGED resolveVars

CmdInit ==
    /\ call = "none"
    /\ cfg = "none"
    /\ provider = "none"
    /\ accountId = ""
    /\ chunking = "none"
    /\ registry = "none"
    /\ textLimit = "none"
    /\ pc = "idle"
    /\ ret = "none"
    /\ CmdIdle

CmdNext ==
    \/ HandleScriptCommand
    \/ BranchCheck
    \/ BranchResume
    \/ Tick
    \/ RestartScriptExits
    \/ BranchScriptLocks
    \/ BranchScriptExits

CmdSpec == CmdInit /\ [][CmdNext]_vars

---------------------------------------------------------------------------
(* Spec: one resolver call on bounded inputs.                              *)

Init ==
    /\ pc = "ready"
    /\ ret = NoResult
    /\ ChunkingInputs \/ DraftInputs \/ LayeredInputs \/ AgentInputs
    /\ CmdIdle

CallChunking ==
    /\ pc = "ready"
    /\ call = "chunking"
    /\ ret' = resolveBlockStreamingChunking(cfg, provider, accountId, textLimit)
    /\ pc' = "done"
    /\ UNCHANGED <<call, cfg, provider, accountId, chunking, registry, textLimit>>
    /\ UNCHANGED cmdVars

CallDraft ==
    /\ pc = "ready"
    /\ call = "draft"
    /\ ret' = resolveTelegramDraftStreamingChunking(cfg, accountId, textLimit)
    /\ pc' = "done"
    /\ UNCHANGED <<call, cfg, provider, accountId, chunking, registry, textLimit>>
    /\ UNCHANGED cmdVars

CallCoalescing ==
    /\ pc = "ready"
    /\ call = "coalescing"
    /\ ret' = resolveBlockStreamingCoalescing(cfg, provider, accountId, chunking,
                                              registry, textLimit)
    /\ pc' = "done"
    /\ UNCHANGED <<call, cfg, provider, accountId, chunking, registry, textLimit>>
    /\ UNCHANGED cmdVars

Next == CallChunking \/ CallDraft \/ CallCoalescing

Spec == Init /\ [][Next]_vars


---------------------------------------------------------------------------
(* Properties of the resolvers.  The expected values are written in plain  *)
(* integer arithmetic, independently of the Math* operators above.         *)

Max2(a, b) == IF a >= b THEN a ELSE b
Min2(a, b) == IF a <= b THEN a ELSE b
Defined(x) == x.tag # "undefined"

Returned(c) == pc = "done" /\ call = c

\* the coalescing block the call is documented to use: the account's block,
\* else the provider's, else the agent-level default
ArgKey == normalizeChunkProvider(provider)
ArgSection == IF cfg.present /\ ArgKey # NoKey THEN cfg.sections[ArgKey] ELSE NoSection
ArgAccount == IF ArgSection.present THEN ArgSection.accounts[normalizeAccountId(accountId)]
              ELSE NoAccount
AccountHasBlock == ArgAccount.present /\ ArgAccount.blockStreamingCoalesce.present
ExpectedCoalesceCfg ==
    IF AccountHasBlock THEN ArgAccount.blockStreamingCoalesce
    ELSE IF ArgSection.present /\ ArgSection.blockStreamingCoalesce.present
         THEN ArgSection.blockStreamingCoalesce
         ELSE IF cfg.present THEN cfg.blockStreamingCoalesce ELSE NoBlock
ArgPlugin == IF ArgKey \in PROVIDER_IDS THEN registry[ArgKey] ELSE NoDefaults

\* plugin minChars, else the chunking argument's minChars, else 800
FallbackMin ==
    IF Defined(ArgPlugin.minChars) THEN ArgPlugin.minChars
    ELSE IF chunking.defined THEN chunking.minChars
         ELSE Num(DEFAULT_BLOCK_STREAM_MIN)
\* plugin idleMs, else 1000
FallbackIdle ==
    IF Defined(ArgPlugin.idleMs) THEN ArgPlugin.idleMs
    ELSE Num(DEFAULT_BLOCK_STREAM_COALESCE_IDLE_MS)

\* min(max(1, floor(first)), maxChars), with Math.* arithmetic on NaN
ExpectedMin(first, maxChars) ==
    IF IsNum(first) /\ IsNum(maxChars)
    THEN Num(Min2(Max2(1, Val(first)), Val(maxChars)))
    ELSE NaN
\* min(max(1, floor(first)), limit)
ExpectedMax(first, limit) ==
    IF IsNum(first) THEN Num(Min2(Max2(1, Val(first)), Val(limit))) ELSE NaN

\* C1: every resolver's output satisfies 1 <= minChars <= maxChars <= hardLimit,
\* for every configuration snapshot and every hard limit >= 1.
C1_MinMaxWithinHardLimit ==
    pc = "done" =>
        /\ IsNum(ret.minChars) /\ IsNum(ret.maxChars)
        /\ Num(1).h <= ret.minChars.h
        /\ ret.minChars.h <= ret.maxChars.h
        /\ ret.maxChars.h <= textLimit.h

\* C2 (as stated): the coalescing resolver returns absent exactly when the provider
\* string cannot be normalized to a registered provider key.
C2_AbsentWithoutProviderKey ==
    Returned("coalescing") => (ret.defined <=> ArgKey # NoKey)

\* C2 (amended): the coalescing resolver returns a record for every provider string,
\* also a missing, empty or unrecognized one; without a provider key the record is
\* resolved from the agent-level block, the chunking argument and the built-in
\* defaults alone.
C2_RecordForEveryProvider ==
    Returned("coalescing") =>
        /\ ret.defined
        /\ ArgKey = NoKey =>
              LET agent == IF cfg.present THEN cfg.blockStreamingCoalesce ELSE NoBlock
              IN /\ (~Defined(OptIdle(agent))) =>
                        ret.idleMs = Num(DEFAULT_BLOCK_STREAM_COALESCE_IDLE_MS)
                 /\ (~Defined(OptMax(agent))) => ret.maxChars = textLimit
                 /\ (~Defined(OptMin(agent))) =>
                        ret.minChars =
                            ExpectedMin(IF chunking.defined THEN chunking.minChars
                                        ELSE Num(DEFAULT_BLOCK_STREAM_MIN),
                                        ret.maxChars)

C2_Witness ==
    /\ Returned("coalescing")
    /\ provider = Str(<<"s", "m", "s">>)
    /\ ret.defined
    /\ ret.idleMs = Num(DEFAULT_BLOCK_STREAM_COALESCE_IDLE_MS)

\* C3: when the account has its own blockStreamingCoalesce block, every field that
\* block leaves unset comes from the plugin / chunking / built-in chain, never from
\* the provider-level or agent-level block.
C3_AccountBlockShadows ==
    (Returned("coalescing") /\ AccountHasBlock) =>
        LET blk == ArgAccount.blockStreamingCoalesce
        IN /\ (~Defined(blk.maxChars)) => ret.maxChars = textLimit
           /\ (~Defined(blk.idleMs)) => ret.idleMs = FallbackIdle
           /\ (~Defined(blk.minChars)) =>
                  ret.minChars = ExpectedMin(FallbackMin, ret.maxChars)

\* account {idleMs: 50} beside provider {minChars: 300}: 300 is not merged in
C3_Witness ==
    /\ Returned("coalescing")
    /\ AccountHasBlock
    /\ ArgAccount.blockStreamingCoalesce = Block(Undefined, Undefined, Num(50), NoPref)
    /\ ArgSection.blockStreamingCoalesce = Block(Num(300), Undefined, Undefined, NoPref)
    /\ cfg.blockStreamingCoalesce.present
    /\ ret.idleMs = Num(50)
    /\ ret.minChars # Num(300)

\* C4: every resolver returns integers minChars >= 1 and maxChars >= 1, an integer
\* idleMs >= 0 and a breakPreference among paragraph / newline / sentence, for every
\* configured value, NaN included.
C4_TotalWithSafeOutputs ==
    pc = "done" =>
        /\ IsInteger(ret.minChars) /\ Val(ret.minChars) >= 1
        /\ IsInteger(ret.maxChars) /\ Val(ret.maxChars) >= 1
        /\ call = "coalescing" => (IsInteger(ret.idleMs) /\ Val(ret.idleMs) >= 0)
        /\ call # "coalescing" => ret.breakPreference \in {"paragraph", "newline", "sentence"}
        /\ (call = "chunking" /\ cfg.present
              /\ OptPref(cfg.blockStreamingChunk) \notin {"newline", "sentence"}) =>
                 ret.breakPreference = "paragraph"

\* C5: the joiner depends only on the chunking argument's breakPreference: sentence
\* gives " ", newline gives "\n", paragraph or no chunking argument gives "\n\n".
C5_JoinerFromChunkingOnly ==
    Returned("coalescing") =>
        /\ (chunking.defined /\ chunking.breakPreference = "sentence") => ret.joiner = " "
        /\ (chunking.defined /\ chunking.breakPreference = "newline") => ret.joiner = "\n"
        /\ (~chunking.defined \/ chunking.breakPreference = "paragraph") =>
               ret.joiner = "\n\n"

C5_Witness ==
    /\ Returned("coalescing")
    /\ chunking.defined /\ chunking.breakPreference = "newline"
    /\ ret.joiner = "\n"
    /\ AccountHasBlock

\* C6: the coalescing minChars is the first defined of configured / plugin /
\* chunking / 800, floored, raised to at least 1, then reduced to maxChars.
C6_CoalesceMinChars ==
    Returned("coalescing") =>
        LET first == IF Defined(OptMin(ExpectedCoalesceCfg))
                     THEN OptMin(ExpectedCoalesceCfg)
                     ELSE FallbackMin
        IN ret.minChars = ExpectedMin(first, ret.maxChars)

\* a configured minChars above the computed maxChars yields minChars = maxChars
C6_Witness ==
    /\ Returned("coalescing")
    /\ OptMin(ExpectedCoalesceCfg) = Num(5000)
    /\ IsNum(ret.maxChars) /\ Val(ret.maxChars) < 5000
    /\ ret.minChars = ret.maxChars

\* C7: the chunking resolver returns maxChars = min(max(1, floor(configured or
\* 1200)), hardLimit) and minChars = min(max(1, floor(configured or 800)), maxChars);
\* hard limit 500 with the defaults gives 500 / 500, and no config with a hard limit
\* of at least 1200 gives {800, 1200, paragraph}.
C7_ChunkingClamp ==
    Returned("chunking") =>
        LET chunkCfg == IF cfg.present THEN cfg.blockStreamingChunk ELSE NoBlock
            cfgMax == IF Defined(OptMax(chunkCfg)) THEN OptMax(chunkCfg)
                      ELSE Num(DEFAULT_BLOCK_STREAM_MAX)
            cfgMin == IF Defined(OptMin(chunkCfg)) THEN OptMin(chunkCfg)
                      ELSE Num(DEFAULT_BLOCK_STREAM_MIN)
        IN /\ ret.maxChars = ExpectedMax(cfgMax, textLimit)
           /\ ret.minChars = ExpectedMin(cfgMin, ret.maxChars)
           /\ (~chunkCfg.present /\ textLimit = Num(500)) =>
                 (ret.maxChars = Num(500) /\ ret.minChars = Num(500))
           /\ (~cfg.present /\ Val(textLimit) >= 1200) =>
                 ret = ChunkingResult(Num(800), Num(1200), "paragraph")

\* a configured min larger than the configured max is reduced to max
C7_Witness ==
    /\ Returned("chunking")
    /\ cfg.present
    /\ cfg.blockStreamingChunk.minChars = Num(1000)
    /\ cfg.blockStreamingChunk.maxChars = Num(300)
    /\ ret.minChars = Num(300) /\ ret.maxChars = Num(300)


---------------------------------------------------------------------------
(* Properties of the command handlers.                                     *)

RestartStyle ==
    {<<"/update">>, <<"/restart">>, <<"/revert">>,
     <<"/clawd-update">>, <<"/clawd-restart">>, <<"/clawd-revert">>}
ScriptRecognized ==
    RestartStyle \cup
    {<<"/push">>, <<"/git-status">>, <<"/doctor">>, <<"/logs">>, <<"/crons">>,
     <<"/copilot-models">>, <<"/clawd-push">>, <<"/clawd-git-status">>,
     <<"/clawd-doctor">>, <<"/clawd-logs">>}
Recognized(inv) ==
    IF inv.handler = "script" THEN inv.command \in ScriptRecognized
    ELSE inv.command = <<"/main">> \/ (inv.command # <<>> /\ Head(inv.command) = "/branch")

\* C8: restart-style commands exclude each other through the lock file: no script
\* is spawned less than 300000 ms after another while the lock file it wrote is in
\* place; an invocation finding a lock younger than 300000 ms replies "in progress"
\* and spawns nothing; one finding a lock aged 300000 ms or more overwrites it.
C8_RestartMutualExclusion ==
    /\ ~ghost.restartOverlap
    /\ (/\ last.handler = "script"
        /\ last.command \in RestartStyle
        /\ last.isAuthorizedSender
        /\ last.allowTextCommands) =>
           /\ (last.lockAgeMs >= 0 /\ last.lockAgeMs < 300000) =>
                  (last.result = "restartInProgress" /\ last.effects = {})
           /\ last.lockAgeMs >= 300000 =>
                  (last.result \in {"initiated", "spawnFailed"}
                     /\ "lockWrite" \in last.effects)

C8_Witness ==
    /\ last.handler = "script"
    /\ last.result = "restartInProgress"
    /\ last.sinceSpawnMs >= 0
    /\ scripts.restart > 0
    /\ restartLock.exists

\* C9: once a branch-switch script was spawned, a later "/branch <name>" or "/main"
\* handled within the next 300000 ms replies "in progress" and spawns nothing.
C9_BranchSwitchExclusive ==
    (/\ last.handler = "branch"
     /\ last.isAuthorizedSender
     /\ last.allowTextCommands
     /\ last.command \in {<<"/branch", "dev">>, <<"/main">>}
     /\ last.sinceSpawnMs >= 0 /\ last.sinceSpawnMs < 300000) =>
        (last.result = "branchInProgress" /\ "spawn" \notin last.effects)

\* C10: an invocation from an unauthorized sender returns shouldContinue = false
\* without a reply, one with text commands disallowed or an unrecognized command
\* returns null, and neither spawns, executes, or touches a lock file.
C10_UnauthorizedNoEffect ==
    [][(handled' = handled + 1 /\ last'.seq = handled') =>
          /\ (~last'.allowTextCommands \/ ~Recognized(last')) =>
                 /\ last'.result = "null"
                 /\ last'.effects = {}
                 /\ UNCHANGED <<restartLock, branchLock, scripts, pending>>
          /\ (last'.allowTextCommands /\ Recognized(last') /\ ~last'.isAuthorizedSender) =>
                 /\ last'.result = "ignored"
                 /\ last'.effects = {}
                 /\ UNCHANGED <<restartLock, branchLock, scripts, pending>>]_vars

\* an unauthorized restart command arriving while the lock is stale leaves it alone
C10_Witness ==
    /\ last.handler = "script"
    /\ last.command = <<"/update">>
    /\ ~last.isAuthorizedSender
    /\ last.result = "ignored"
    /\ last.lockAgeMs >= 300000
    /\ restartLock.exists

=============================================================================
